---------------------------- MODULE Spec2Model ----------------------------
(***************************************************************************)
(* Model of src/generate_badges.py: main() classifies entities and         *)
(* participant groups into two streams and calls generate_badges_pdf()     *)
(* twice, once with the grouped policy and once with the per-entity one.   *)
(*                                                                         *)
(* Lengths are in millimetres (the code multiplies every length by the     *)
(* same factor mm, so ratios and comparisons are unchanged; no quotient    *)
(* of the configurations below is close enough to an integer for the       *)
(* floating-point floor division to differ from \div).  A spacing          *)
(* is the quotient of two integers and is kept as numerator/denominator;   *)
(* a coordinate on the horizontal axis is kept multiplied by h_den and a   *)
(* coordinate on the vertical axis multiplied by v_den, so every           *)
(* comparison is exact.                                                    *)
(*                                                                         *)
(* Strings the code inspects (entity_type, participant name) are           *)
(* sequences of one-character strings.  An insertion-ordered dict is a     *)
(* sequence of [entity_id, participants] records with distinct keys; the   *)
(* keys of all_participants are numbered in insertion order.               *)
(*                                                                         *)
(* The canvas is the trace of the calls made on it: footer, badge,         *)
(* showPage, save.                                                         *)
(***************************************************************************)
EXTENDS Integers, Sequences, FiniteSets, TLC

VARIABLES
    cfg,                            \* the PDF configuration (lines 115-125)
    entities,                       \* main: entities
    all_participants,               \* main: all_participants
    private_delegate_entities,      \* main: line 273
    delegation_entities,            \* main: line 274
    private_delegate_participants,  \* main: line 284
    delegation_participants,        \* main: line 285
    pc,                             \* position in main / generate_badges_pdf
    stream,                         \* 1: first call (line 305), 2: second call (line 314)
    canvas,                         \* per call: created, ops (calls on c), saved
    ent_idx,                        \* position of the for loop over .items()
    part_idx,                       \* position of the for loop over participants
    badge_index,                    \* generate_badges_pdf: badge_index
    error                           \* "none" or the exception that ended the run

vars == <<cfg, entities, all_participants, private_delegate_entities,
          delegation_entities, private_delegate_participants,
          delegation_participants, pc, stream, canvas, ent_idx, part_idx,
          badge_index, error>>

---------------------------------------------------------------------------
(* Bounds of the model *)

MaxEntities == 2
MaxOverflow == 1
MaxNameLen == 27

EntityIds == 1..MaxEntities

---------------------------------------------------------------------------
(* Strings *)

UpperCase == <<"A","B","C","D","E","F","G","H","I","J","K","L","M",
               "N","O","P","Q","R","S","T","U","V","W","X","Y","Z">>
LowerCase == <<"a","b","c","d","e","f","g","h","i","j","k","l","m",
               "n","o","p","q","r","s","t","u","v","w","x","y","z">>

\* str.lower() on one character
LowerChar(ch) ==
    IF \E i \in 1..Len(UpperCase) : UpperCase[i] = ch
    THEN LowerCase[CHOOSE i \in 1..Len(UpperCase) : UpperCase[i] = ch]
    ELSE ch

\* str.lower()
Lower(s) == [i \in 1..Len(s) |-> LowerChar(s[i])]

\* the operator `in' on strings: sub occurs in s as a contiguous substring
Contains(sub, s) ==
    \E i \in 0..(Len(s) - Len(sub)) :
        \A j \in 1..Len(sub) : s[i + j] = sub[j]

PRIVATE_DELEGATE ==
    <<"p","r","i","v","a","t","e"," ","d","e","l","e","g","a","t","e">>

\* the match without lower()
IsPrivateDelegate_CaseSensitive(entity_type) == Contains(PRIVATE_DELEGATE, entity_type)

\* 'private delegate' in entity_type  (lines 277-278 and 289-291)
IsPrivateDelegate(entity_type) == Contains(PRIVATE_DELEGATE, Lower(entity_type))

---------------------------------------------------------------------------
(* Inputs *)

\* entity types of the entities file
TypePrivate == <<"P","r","i","v","a","t","e"," ","D","e","l","e","g","a","t","e">>
TypeVipPrivate ==
    <<"V","I","P"," ","P","R","I","V","A","T","E"," ","D","E","L","E","G","A","T","E","S">>
TypePrivateDelegation ==
    <<"P","r","i","v","a","t","e"," ","D","e","l","e","g","a","t","i","o","n">>
TypeJunior == <<"J","u","n","i","o","r">>

EntityTypes == {TypePrivate, TypeVipPrivate, TypePrivateDelegation}
GeomEntityTypes == {TypePrivate, TypeJunior}

Absent == <<"absent">>

DisplayNameOf(id) == <<"team", id>>

NameAlphabet == <<"a","b","c","d","e","f","g">>

\* a name of length n whose characters differ along the name
NameOfLen(n) == [i \in 1..n |-> NameAlphabet[(i % Len(NameAlphabet)) + 1]]

\* the first participant of an entity has a long name (26, 25, ... characters
\* for entity 1, 2, ...), the following ones names of 2, 0, 1, 2, ... characters
NameLenOf(id, k) ==
    IF k = 1 THEN (IF MaxNameLen > id THEN MaxNameLen - id ELSE 0) ELSE k % 3

\* the k-th participant row of entity id (load_participants, lines 54-57);
\* every fourth row has an empty participant_id
ParticipantOf(id, k) ==
    [participant_id |-> IF k % 4 = 0 THEN <<>> ELSE <<"p", id, k>>,
     name |-> NameOfLen(NameLenOf(id, k))]

---------------------------------------------------------------------------
(* PDF configuration and grid (generate_badges_pdf, lines 115-140) *)

A4Config ==
    [page_width |-> 210, page_height |-> 297, margin |-> 10,
     qr_size |-> 40, text_space |-> 10, footer_height |-> 15]

\* other configurations of the same page: badge sizes that give a grid of
\* 2x2, 1x2, 0x1 (badge wider than the usable width) and 4x0 (badge taller
\* than the usable height)
Configs ==
    { A4Config,
      [A4Config EXCEPT !.qr_size = 90],
      [A4Config EXCEPT !.qr_size = 100],
      [A4Config EXCEPT !.qr_size = 250],
      [A4Config EXCEPT !.text_space = 230] }

badge_width(c) == c.qr_size
badge_height(c) == c.qr_size + c.text_space
usable_width(c) == c.page_width - (2 * c.margin)
usable_height(c) == c.page_height - (2 * c.margin) - c.footer_height
cols(c) == usable_width(c) \div badge_width(c)
rows(c) == usable_height(c) \div badge_height(c)
badges_per_page(c) == cols(c) * rows(c)
total_badge_width(c) == cols(c) * badge_width(c)
total_badge_height(c) == rows(c) * badge_height(c)

\* h_spacing = h_num / h_den, v_spacing = v_num / v_den
h_num(c) == IF cols(c) > 1 THEN usable_width(c) - total_badge_width(c) ELSE 0
h_den(c) == IF cols(c) > 1 THEN cols(c) + 1 ELSE 1
v_num(c) == IF rows(c) > 1 THEN usable_height(c) - total_badge_height(c) ELSE 0
v_den(c) == IF rows(c) > 1 THEN rows(c) + 1 ELSE 1

---------------------------------------------------------------------------
(* Input mappings *)

\* sizes of one entity's participant list: a single participant, a list
\* that fills a page exactly, and lists that overflow it
Sizes(c) ==
    {1} \cup
    { n \in badges_per_page(c)..(badges_per_page(c) + MaxOverflow) : n >= 1 }

\* the dict load_participants returns: keys in insertion order, every list
\* non-empty (a key exists only once a row was appended to its list)
ParticipantMappings(c) ==
    UNION { { [i \in 1..k |->
                 [entity_id |-> i,
                  participants |-> [j \in 1..sz[i] |-> ParticipantOf(i, j)]]] :
              sz \in [1..k -> Sizes(c)] } :
            k \in 0..MaxEntities }

\* the dict load_entities returns
EntityMappings(types) ==
    { [id \in { i \in EntityIds : choice[i] # Absent } |->
          [entity_type |-> choice[id], display_name |-> DisplayNameOf(id)]] :
      choice \in [EntityIds -> types \cup {Absent}] }

---------------------------------------------------------------------------
(* Drawing helpers (lines 145-194) *)

FOOTER_TITLE == <<"Private Delegates">>
UNKNOWN_DELEGATION == <<"Unknown Delegation">>

\* draw_footer("Private Delegates")
draw_footer == [op |-> "footer", lines |-> <<FOOTER_TITLE>>]

\* entities.get(entity_id, {}) with the fallback 'Unknown' of line 156
EntityInfoOf_EmptyDefault(entity_id) ==
    IF entity_id \in DOMAIN entities
    THEN entities[entity_id]
    ELSE [entity_type |-> <<>>, display_name |-> <<"Unknown">>]

\* entities.get(entity_id, {... 'display_name': 'Unknown Delegation'})
EntityInfoOf(entity_id) ==
    IF entity_id \in DOMAIN entities
    THEN entities[entity_id]
    ELSE [entity_type |-> <<"Unknown">>, display_name |-> UNKNOWN_DELEGATION]

\* draw_entity_footer(entity_id, entity_info): two centred strings
draw_entity_footer(entity_id) ==
    [op |-> "footer", lines |-> <<entity_id, EntityInfoOf(entity_id).display_name>>]

max_name_length == 25

\* truncation that also cuts a name of exactly max_name_length characters
Label_CutsAtLimit(participant_name) ==
    IF Len(participant_name) >= max_name_length
    THEN SubSeq(participant_name, 1, max_name_length - 3) \o <<".", ".", ".">>
    ELSE participant_name

\* the label of a name (lines 188-190)
Label(participant_name) ==
    IF Len(participant_name) > max_name_length
    THEN SubSeq(participant_name, 1, max_name_length - 3) \o <<".", ".", ".">>
    ELSE participant_name

\* x * h_den (line 172)
BadgeX(c, index) ==
    c.margin * h_den(c) + h_num(c)
        + (index % cols(c)) * (badge_width(c) * h_den(c) + h_num(c))

\* y_from_top * v_den (line 174)
BadgeYFromTop(c, index) ==
    (c.margin + c.footer_height) * v_den(c) + v_num(c)
        + (index \div cols(c)) * (badge_height(c) * v_den(c) + v_num(c))

\* y * v_den (line 175)
BadgeY(c, index) ==
    c.page_height * v_den(c) - BadgeYFromTop(c, index) - badge_height(c) * v_den(c)

\* draw_badge(participant, badge_index): the division by cols on lines
\* 168-169 raises ZeroDivisionError when cols is 0
DrawBadgeRaises(c) == cols(c) = 0

draw_badge(c, entity_id, k, participant, index) ==
    [op |-> "badge",
     entity_id |-> entity_id,
     k |-> k,
     index |-> index,
     x |-> BadgeX(c, index),
     y |-> BadgeY(c, index),
     qr |-> participant.participant_id # <<>>,
     label |-> Label(participant.name)]

SHOW_PAGE == [op |-> "showPage"]
SAVE == [op |-> "save"]

---------------------------------------------------------------------------
(* State of one call of generate_badges_pdf *)

\* the participants_by_entity argument of the current call
participants_by_entity ==
    IF stream = 1 THEN private_delegate_participants ELSE delegation_participants

group_all_together == stream = 1

NoCanvas == [created |-> FALSE, ops |-> <<>>, saved |-> FALSE]

Emit(s, new_ops) == [canvas EXCEPT ![s].ops = canvas[s].ops \o new_ops]

CurEntity == participants_by_entity[ent_idx]
CurParticipant == CurEntity.participants[part_idx]

LoopVarsUnchanged ==
    UNCHANGED <<cfg, entities, all_participants, private_delegate_entities,
                delegation_entities, private_delegate_participants,
                delegation_participants, stream>>

\* return from generate_badges_pdf to main (after line 311 or line 319)
ReturnToMain ==
    /\ pc' = IF stream = 1 THEN "call" ELSE "done"
    /\ stream' = IF stream = 1 THEN 2 ELSE stream

---------------------------------------------------------------------------
(* main *)

\* lines 272-281
ClassifyEntities ==
    /\ pc = "classify_entities"
    /\ private_delegate_entities' =
          [id \in { i \in DOMAIN entities : IsPrivateDelegate(entities[i].entity_type) }
              |-> entities[id]]
    /\ delegation_entities' =
          [id \in { i \in DOMAIN entities : ~IsPrivateDelegate(entities[i].entity_type) }
              |-> entities[id]]
    /\ pc' = "split_participants"
    /\ UNCHANGED <<cfg, entities, all_participants, private_delegate_participants,
                   delegation_participants, stream, canvas, ent_idx, part_idx,
                   badge_index, error>>

\* entities.get(entity_id, {}).get('entity_type', '').lower()  (lines 288-289)
TypeForSplit(entity_id) ==
    IF entity_id \in DOMAIN entities THEN entities[entity_id].entity_type ELSE <<>>

GoesToPrivate(item) == IsPrivateDelegate(TypeForSplit(item.entity_id))
GoesToDelegation(item) == ~IsPrivateDelegate(TypeForSplit(item.entity_id))

\* lines 283-294
SplitParticipants ==
    /\ pc = "split_participants"
    /\ private_delegate_participants' = SelectSeq(all_participants, GoesToPrivate)
    /\ delegation_participants' = SelectSeq(all_participants, GoesToDelegation)
    /\ pc' = "call"
    /\ UNCHANGED <<cfg, entities, all_participants, private_delegate_entities,
                   delegation_entities, stream, canvas, ent_idx, part_idx,
                   badge_index, error>>

---------------------------------------------------------------------------
(* generate_badges_pdf *)

\* an empty mapping that ends the whole run
ReturnEmpty_EndsRun ==
    /\ pc = "call"
    /\ participants_by_entity = <<>>
    /\ pc' = "done"
    /\ UNCHANGED <<cfg, entities, all_participants, private_delegate_entities,
                   delegation_entities, private_delegate_participants,
                   delegation_participants, stream, canvas, ent_idx, part_idx,
                   badge_index, error>>

\* lines 110-112: nothing to process
ReturnEmpty ==
    /\ pc = "call"
    /\ participants_by_entity = <<>>
    /\ ReturnToMain
    /\ UNCHANGED <<cfg, entities, all_participants, private_delegate_entities,
                   delegation_entities, private_delegate_participants,
                   delegation_participants, canvas, ent_idx, part_idx,
                   badge_index, error>>

\* lines 114-143 and 196-201: canvas created, grouped policy entered
OpenGrouped ==
    /\ pc = "call"
    /\ participants_by_entity # <<>>
    /\ group_all_together
    /\ canvas' = [canvas EXCEPT ![stream] =
                     [created |-> TRUE, ops |-> <<draw_footer>>, saved |-> FALSE]]
    /\ badge_index' = 0
    /\ ent_idx' = 1
    /\ part_idx' = 1
    /\ pc' = "grouped_loop"
    /\ UNCHANGED error
    /\ LoopVarsUnchanged

\* lines 114-143 and 216-219: canvas created, per-entity policy entered
OpenPerEntity ==
    /\ pc = "call"
    /\ participants_by_entity # <<>>
    /\ ~group_all_together
    /\ canvas' = [canvas EXCEPT ![stream] =
                     [created |-> TRUE, ops |-> <<>>, saved |-> FALSE]]
    /\ ent_idx' = 1
    /\ part_idx' = 1
    /\ pc' = "entity_start"
    /\ UNCHANGED <<badge_index, error>>
    /\ LoopVarsUnchanged

\* a page break one badge too late
PageFull_OffByOne == badge_index > badges_per_page(cfg)

\* "Check if we need a new page" (lines 206 and 233)
PageFull == badge_index >= badges_per_page(cfg)

\* the calls one loop iteration makes before draw_badge (lines 206-209 and
\* 233-236): a page break and a footer when the page is full
BeforeBadge(footer) ==
    IF PageFull THEN <<SHOW_PAGE, footer>> ELSE <<>>

\* badge_index never reset on a new page
IndexForBadge_NoReset == badge_index

\* badge_index as draw_badge receives it (lines 209 and 236 reset it)
IndexForBadge ==
    IF PageFull THEN 0 ELSE badge_index

\* one iteration of the loop body, lines 205-212 and 232-239
PlaceBadge(footer, next_pc) ==
    IF DrawBadgeRaises(cfg)
    THEN /\ canvas' = Emit(stream, BeforeBadge(footer))
         /\ error' = "ZeroDivisionError"
         /\ pc' = "crashed"
         /\ badge_index' = IndexForBadge
         /\ UNCHANGED <<ent_idx, part_idx>>
    ELSE /\ canvas' = Emit(stream,
                 BeforeBadge(footer)
                   \o <<draw_badge(cfg, CurEntity.entity_id, part_idx,
                                   CurParticipant, IndexForBadge)>>)
         /\ badge_index' = IndexForBadge + 1
         /\ pc' = next_pc
         /\ UNCHANGED error

\* lines 203-212, badge_index < badges_per_page
GroupedPlace ==
    /\ pc = "grouped_loop"
    /\ ent_idx <= Len(participants_by_entity)
    /\ ~PageFull
    /\ PlaceBadge(draw_footer, "grouped_loop")
    /\ IF pc' = "crashed" THEN TRUE
       ELSE IF part_idx < Len(CurEntity.participants)
            THEN part_idx' = part_idx + 1 /\ ent_idx' = ent_idx
            ELSE part_idx' = 1 /\ ent_idx' = ent_idx + 1
    /\ LoopVarsUnchanged

\* lines 203-212, badge_index >= badges_per_page: new page first
GroupedNewPage ==
    /\ pc = "grouped_loop"
    /\ ent_idx <= Len(participants_by_entity)
    /\ PageFull
    /\ PlaceBadge(draw_footer, "grouped_loop")
    /\ IF pc' = "crashed" THEN TRUE
       ELSE IF part_idx < Len(CurEntity.participants)
            THEN part_idx' = part_idx + 1 /\ ent_idx' = ent_idx
            ELSE part_idx' = 1 /\ ent_idx' = ent_idx + 1
    /\ LoopVarsUnchanged

\* the last page left open
GroupedFinish_NoShowPage ==
    /\ pc = "grouped_loop"
    /\ ent_idx > Len(participants_by_entity)
    /\ pc' = "save"
    /\ UNCHANGED <<canvas, ent_idx, part_idx, badge_index, error>>
    /\ LoopVarsUnchanged

\* lines 214-215: finalize last page
GroupedFinish ==
    /\ pc = "grouped_loop"
    /\ ent_idx > Len(participants_by_entity)
    /\ canvas' = Emit(stream, <<SHOW_PAGE>>)
    /\ pc' = "save"
    /\ UNCHANGED <<ent_idx, part_idx, badge_index, error>>
    /\ LoopVarsUnchanged

\* lines 219-229: next entity, its footer, badge_index = 0
EntityStart ==
    /\ pc = "entity_start"
    /\ ent_idx <= Len(participants_by_entity)
    /\ canvas' = Emit(stream, <<draw_entity_footer(CurEntity.entity_id)>>)
    /\ badge_index' = 0
    /\ part_idx' = 1
    /\ pc' = "entity_loop"
    /\ UNCHANGED <<ent_idx, error>>
    /\ LoopVarsUnchanged

\* lines 231-239, badge_index < badges_per_page
EntityPlace ==
    /\ pc = "entity_loop"
    /\ part_idx <= Len(CurEntity.participants)
    /\ ~PageFull
    /\ PlaceBadge(draw_entity_footer(CurEntity.entity_id), "entity_loop")
    /\ IF pc' = "crashed" THEN TRUE
       ELSE part_idx' = part_idx + 1 /\ ent_idx' = ent_idx
    /\ LoopVarsUnchanged

\* lines 231-239, badge_index >= badges_per_page: new page first
EntityNewPage ==
    /\ pc = "entity_loop"
    /\ part_idx <= Len(CurEntity.participants)
    /\ PageFull
    /\ PlaceBadge(draw_entity_footer(CurEntity.entity_id), "entity_loop")
    /\ IF pc' = "crashed" THEN TRUE
       ELSE part_idx' = part_idx + 1 /\ ent_idx' = ent_idx
    /\ LoopVarsUnchanged

\* the next entity started without a page break
EntityFinish_NoBreak ==
    /\ pc = "entity_loop"
    /\ part_idx > Len(CurEntity.participants)
    /\ ent_idx' = ent_idx + 1
    /\ pc' = "entity_start"
    /\ UNCHANGED <<canvas, part_idx, badge_index, error>>
    /\ LoopVarsUnchanged

\* lines 241-242: move to next page for the next entity
EntityFinish ==
    /\ pc = "entity_loop"
    /\ part_idx > Len(CurEntity.participants)
    /\ canvas' = Emit(stream, <<SHOW_PAGE>>)
    /\ ent_idx' = ent_idx + 1
    /\ pc' = "entity_start"
    /\ UNCHANGED <<part_idx, badge_index, error>>
    /\ LoopVarsUnchanged

\* the for loop of line 219 is exhausted
EntitiesDone ==
    /\ pc = "entity_start"
    /\ ent_idx > Len(participants_by_entity)
    /\ pc' = "save"
    /\ UNCHANGED <<canvas, ent_idx, part_idx, badge_index, error>>
    /\ LoopVarsUnchanged

\* lines 244-250: c.save(), return to main
Save ==
    /\ pc = "save"
    /\ canvas' = [canvas EXCEPT ![stream].ops = canvas[stream].ops \o <<SAVE>>,
                                ![stream].saved = TRUE]
    /\ ReturnToMain
    /\ UNCHANGED <<cfg, entities, all_participants, private_delegate_entities,
                   delegation_entities, private_delegate_participants,
                   delegation_participants, ent_idx, part_idx, badge_index, error>>

---------------------------------------------------------------------------
(* Specifications *)

InitWith(configs, types) ==
    /\ cfg \in configs
    /\ entities \in EntityMappings(types)
    /\ all_participants \in ParticipantMappings(cfg)
    /\ private_delegate_entities = <<>>
    /\ delegation_entities = <<>>
    /\ private_delegate_participants = <<>>
    /\ delegation_participants = <<>>
    /\ pc = "classify_entities"
    /\ stream = 1
    /\ canvas = [s \in 1..2 |-> NoCanvas]
    /\ ent_idx = 1
    /\ part_idx = 1
    /\ badge_index = 0
    /\ error = "none"

\* the program: the configuration of lines 115-125
Init == InitWith({A4Config}, EntityTypes)

\* the program with its page configuration as a parameter
InitGeom == InitWith(Configs, GeomEntityTypes)

Next ==
    \/ ClassifyEntities
    \/ SplitParticipants
    \/ ReturnEmpty
    \/ OpenGrouped
    \/ OpenPerEntity
    \/ GroupedPlace
    \/ GroupedNewPage
    \/ GroupedFinish
    \/ EntityStart
    \/ EntityPlace
    \/ EntityNewPage
    \/ EntityFinish
    \/ EntitiesDone
    \/ Save

Spec == Init /\ [][Next]_vars

SpecGeom == InitGeom /\ [][Next]_vars

---------------------------------------------------------------------------
(* Reading a canvas trace *)

Ops(s) == canvas[s].ops

IsBadge(o) == o.op = "badge"
IsFooter(o) == o.op = "footer"
IsShowPage(o) == o.op = "showPage"
IsSave(o) == o.op = "save"

IsShowPageAt(ops, i) == IsShowPage(ops[i])
IsDrawing(o) == ~IsSave(o)

\* the positions of the showPage calls, in order
PageEnds(ops) ==
    LET at(i) == IsShowPageAt(ops, i)
    IN SelectSeq([i \in 1..Len(ops) |-> i], at)

\* the drawing calls of each page ended by showPage, in order
ClosedPagesOf(ops, ends) ==
    [p \in 1..Len(ends) |->
        SubSeq(ops, (IF p = 1 THEN 0 ELSE ends[p - 1]) + 1, ends[p] - 1)]

\* the drawing calls made since the last showPage
OpenPageOf(ops, ends) ==
    SelectSeq(SubSeq(ops, (IF ends = <<>> THEN 0 ELSE ends[Len(ends)]) + 1, Len(ops)),
              IsDrawing)

ClosedPages(s) == ClosedPagesOf(Ops(s), PageEnds(Ops(s)))
OpenPage(s) == OpenPageOf(Ops(s), PageEnds(Ops(s)))

\* every page of the trace, the open one included when something is on it
AllPages(s) ==
    IF OpenPage(s) = <<>> THEN ClosedPages(s) ELSE Append(ClosedPages(s), OpenPage(s))

BadgesOf(page) == SelectSeq(page, IsBadge)
FootersOf(page) == SelectSeq(page, IsFooter)
NumBadges(page) == Len(BadgesOf(page))

RECURSIVE SumSizes(_)
SumSizes(mapping) ==
    IF mapping = <<>> THEN 0
    ELSE Len(Head(mapping).participants) + SumSizes(Tail(mapping))

CeilDiv(n, b) == (n + b - 1) \div b

EntitiesOnPage(page) == { BadgesOf(page)[i].entity_id : i \in 1..NumBadges(page) }

\* the participants_by_entity argument of call s
StreamParticipants(s) ==
    IF s = 1 THEN private_delegate_participants ELSE delegation_participants

Keys(mapping) == { mapping[i].entity_id : i \in 1..Len(mapping) }

\* the participant list of a key of all_participants
ParticipantsOf(id) ==
    LET i == CHOOSE j \in 1..Len(all_participants) : all_participants[j].entity_id = id
    IN all_participants[i].participants

\* call s of generate_badges_pdf has returned to main
Returned(s) == pc = "done" \/ (stream > s /\ pc # "crashed")

---------------------------------------------------------------------------
(* C1: grouped policy, badges_per_page >= 1: every page but the last holds
   exactly badges_per_page badges, the last one holds total mod
   badges_per_page badges, or badges_per_page when that is 0; no page is
   ended for any other reason, an entity boundary included. *)
C1_GroupedPagination ==
    badges_per_page(cfg) >= 1 =>
        LET B == badges_per_page(cfg)
            T == SumSizes(private_delegate_participants)
            closed == ClosedPages(1)
        IN /\ NumBadges(OpenPage(1)) <= B
           /\ ~canvas[1].saved /\ pc # "save" =>
                  \A i \in 1..Len(closed) : NumBadges(closed[i]) = B
           /\ canvas[1].saved =>
                  /\ OpenPage(1) = <<>>
                  /\ Len(closed) = CeilDiv(T, B)
                  /\ \A i \in 1..(Len(closed) - 1) : NumBadges(closed[i]) = B
                  /\ NumBadges(closed[Len(closed)]) = (IF T % B = 0 THEN B ELSE T % B)

\* a saved grouped file of several pages, the last one partly filled, with
\* a page that carries the badges of two entities
C1_Witness ==
    /\ canvas[1].saved
    /\ badges_per_page(cfg) >= 1
    /\ Len(ClosedPages(1)) >= 2
    /\ SumSizes(private_delegate_participants) % badges_per_page(cfg) # 0
    /\ \E i \in 1..Len(ClosedPages(1)) : Cardinality(EntitiesOnPage(ClosedPages(1)[i])) = 2

---------------------------------------------------------------------------
(* Definitions for C2 *)

IsolatedPage(page, on_page) ==
    /\ Cardinality(on_page) <= 1
    /\ \A j \in 1..Len(page) :
          /\ IsFooter(page[j]) => j = 1 /\ on_page \subseteq {page[j].lines[1]}
          /\ IsBadge(page[j]) /\ page[j].k = 1 => page[j].index = 0 /\ j = 2

IsolatedPages(pages) ==
    \A i \in 1..Len(pages) : IsolatedPage(pages[i], EntitiesOnPage(pages[i]))

(* C2: per-entity policy: no page carries badges of two entities; a page
   carries the footer of the entity whose badges it carries; every footer
   opens a fresh page, and the first badge of an entity is the first badge
   of its page, at slot 0. *)
C2_PerEntityIsolation ==
    /\ IsolatedPages(AllPages(2))
    /\ pc = "entity_start" => OpenPage(2) = <<>>

\* a second entity starts on a fresh page although the first one left its
\* last page partly filled
C2_Witness ==
    /\ pc = "entity_loop"
    /\ stream = 2
    /\ ent_idx = 2
    /\ badges_per_page(cfg) >= 2
    /\ Len(delegation_participants[1].participants) % badges_per_page(cfg) # 0
    /\ NumBadges(OpenPage(2)) = 1

---------------------------------------------------------------------------
(* Definitions for C10 *)

ExpectedFooterLines(entity_id) ==
    <<entity_id,
      IF entity_id \in DOMAIN entities
      THEN entities[entity_id].display_name ELSE UNKNOWN_DELEGATION>>

\* the pages of one entity: <<footer lines, <<k, slot>>, <<k, slot>>, ...>>
ExpectedEntityPages(item, B) ==
    LET n == Len(item.participants)
    IN [p \in 1..CeilDiv(n, B) |->
          <<ExpectedFooterLines(item.entity_id)>> \o
          [q \in 1..(IF p * B <= n THEN B ELSE n - (p - 1) * B) |->
              <<item.entity_id, (p - 1) * B + q, q - 1>>]]

RECURSIVE ExpectedPages(_, _)
ExpectedPages(mapping, B) ==
    IF mapping = <<>> THEN <<>>
    ELSE ExpectedEntityPages(Head(mapping), B) \o ExpectedPages(Tail(mapping), B)

\* a page as <<footer lines, <<entity_id, k, slot>>, ...>>
PageShape(page) ==
    [j \in 1..Len(page) |->
        IF IsFooter(page[j]) THEN page[j].lines
        ELSE <<page[j].entity_id, page[j].k, page[j].index>>]

(* C10: per-entity policy, badges_per_page >= 1: in the saved file the
   pages are, entity after entity in mapping order, ceil(n / badges_per_page)
   pages per entity of n participants; each page starts with that entity's
   footer (entity_id, display name), holds no other footer, and then the
   entity's next participants in input order at slots 0, 1, ... *)
C10_PerEntityContinuation ==
    badges_per_page(cfg) >= 1 /\ canvas[2].saved =>
        /\ OpenPage(2) = <<>>
        /\ [i \in 1..Len(ClosedPages(2)) |-> PageShape(ClosedPages(2)[i])]
              = ExpectedPages(delegation_participants, badges_per_page(cfg))

\* a saved per-entity file in which an entity needed a continuation page
C10_Witness ==
    /\ canvas[2].saved
    /\ badges_per_page(cfg) >= 1
    /\ \E i \in 1..Len(delegation_participants) :
           Len(delegation_participants[i].participants) > badges_per_page(cfg)
    /\ Len(delegation_participants) = 2

---------------------------------------------------------------------------
(* Definitions for C3 *)

NumShowPage(s) == Len(PageEnds(Ops(s)))

\* the showPage calls that end a file (line 215) or an entity (line 242)
NumFinishingShowPage(s) ==
    IF s = 1 THEN 1 ELSE Len(delegation_participants)

(* C3: degenerate geometry (cols = 0 or rows = 0, so badges_per_page = 0):
   no participant makes the run fail with a division by zero; every
   participant causes exactly one page break, and the file is saved. *)
C3_DegenerateGeometry ==
    badges_per_page(cfg) = 0 =>
        /\ error = "none"
        /\ pc # "crashed"
        /\ \A s \in 1..2 :
              /\ canvas[s].saved =>
                    NumShowPage(s) = SumSizes(StreamParticipants(s)) + NumFinishingShowPage(s)
              /\ (pc = "done" \/ stream > s) /\ StreamParticipants(s) # <<>> => canvas[s].saved

---------------------------------------------------------------------------
(* Definitions for C9 *)

InsideUsableArea(c, o) ==
    /\ c.margin * h_den(c) <= o.x
    /\ o.x + badge_width(c) * h_den(c) <= (c.page_width - c.margin) * h_den(c)
    /\ (c.margin + c.footer_height) * v_den(c) <= o.y
    /\ o.y + badge_height(c) * v_den(c) <= (c.page_height - c.margin) * v_den(c)

(* C9: every badge rectangle lies between the left and right margins and
   between the top margin and the top of the footer band above the bottom
   margin (coordinates from the bottom-left corner of the page). *)
C9_BadgeInsideUsableArea ==
    cols(cfg) >= 1 /\ rows(cfg) >= 1 =>
        \A s \in 1..2 : \A i \in 1..Len(Ops(s)) :
            IsBadge(Ops(s)[i]) => InsideUsableArea(cfg, Ops(s)[i])

---------------------------------------------------------------------------
(* C4: a call with an empty participant mapping creates no canvas, draws
   nothing and saves nothing; an empty first stream does not keep main
   from rendering the second one. *)
C4_EmptyMappingNoOp ==
    /\ \A s \in 1..2 :
          pc \notin {"classify_entities", "split_participants"}
            /\ StreamParticipants(s) = <<>> => canvas[s] = NoCanvas
    /\ pc = "done" /\ delegation_participants # <<>> =>
          /\ canvas[2].created
          /\ canvas[2].saved
          /\ Len(SelectSeq(Ops(2), IsBadge)) = SumSizes(delegation_participants)

\* the run is over, the first stream was empty and the second was rendered
C4_Witness ==
    /\ pc = "done"
    /\ private_delegate_participants = <<>>
    /\ canvas[1] = NoCanvas
    /\ delegation_participants # <<>>
    /\ canvas[2].saved

---------------------------------------------------------------------------
(* Definitions for C5 *)

\* the entity types of the entities file that name a private delegate
NamesPrivateDelegate(entity_type) == entity_type \in {TypePrivate, TypeVipPrivate}

(* C5: after classification every entity_id of entities is in exactly one
   of private_delegate_entities and delegation_entities, the first one
   exactly when its entity_type holds 'private delegate' in any case; after
   the split every key of all_participants is in exactly one of the two
   participant mappings, the one of its entity when the entity is known. *)
C5_ClassificationPartition ==
    /\ pc # "classify_entities" =>
          /\ DOMAIN private_delegate_entities \cup DOMAIN delegation_entities
                = DOMAIN entities
          /\ DOMAIN private_delegate_entities \cap DOMAIN delegation_entities = {}
          /\ \A id \in DOMAIN entities :
                id \in DOMAIN private_delegate_entities
                  <=> NamesPrivateDelegate(entities[id].entity_type)
    /\ pc \notin {"classify_entities", "split_participants"} =>
          /\ Keys(private_delegate_participants) \cup Keys(delegation_participants)
                = Keys(all_participants)
          /\ Keys(private_delegate_participants) \cap Keys(delegation_participants) = {}
          /\ Len(private_delegate_participants) + Len(delegation_participants)
                = Len(all_participants)
          /\ \A id \in Keys(all_participants) \cap DOMAIN entities :
                /\ id \in Keys(private_delegate_participants)
                      <=> id \in DOMAIN private_delegate_entities
                /\ id \in Keys(delegation_participants)
                      <=> id \in DOMAIN delegation_entities

\* both streams got an entity with participants: one whose type is in upper
\* case with text around the words, one whose type only resembles them
C5_Witness ==
    /\ pc = "call"
    /\ \E id \in Keys(private_delegate_participants) :
          id \in DOMAIN entities /\ entities[id].entity_type = TypeVipPrivate
    /\ \E id \in Keys(delegation_participants) :
          id \in DOMAIN entities /\ entities[id].entity_type = TypePrivateDelegation

---------------------------------------------------------------------------
(* Definitions for C6 *)

UnknownIds == Keys(all_participants) \ DOMAIN entities

BadgesOfEntity(s, id) ==
    LET of(o) == IsBadge(o) /\ o.entity_id = id
    IN SelectSeq(Ops(s), of)

\* every page with a badge of id has the one footer (id, 'Unknown Delegation')
UnknownFooterOn(pages, id) ==
    \A i \in 1..Len(pages) :
        id \in EntitiesOnPage(pages[i]) =>
            /\ Len(FootersOf(pages[i])) = 1
            /\ FootersOf(pages[i])[1].lines = <<id, <<"Unknown Delegation">> >>

\* badges are those of participants 1, 2, ..., n, in this order
OneBadgeEach(badges, n) ==
    [i \in 1..Len(badges) |-> badges[i].k] = [i \in 1..n |-> i]

(* C6: a participant group whose entity_id is not in entities makes no run
   fail; it goes to the delegation stream, never to the grouped one; each
   page with its badges has the footer (entity_id, 'Unknown Delegation'),
   and the saved file holds one badge per participant of the group. *)
C6_UnknownEntityTolerated ==
    /\ error = "none"
    /\ pc # "crashed"
    /\ pc \notin {"classify_entities", "split_participants"} =>
          \A id \in UnknownIds :
              /\ id \in Keys(delegation_participants)
              /\ id \notin Keys(private_delegate_participants)
              /\ BadgesOfEntity(1, id) = <<>>
              /\ UnknownFooterOn(AllPages(2), id)
              /\ canvas[2].saved =>
                    OneBadgeEach(BadgesOfEntity(2, id), Len(ParticipantsOf(id)))

\* a saved delegation file with the badges of an unknown entity on more
\* than one page
C6_Witness ==
    /\ canvas[2].saved
    /\ \E id \in UnknownIds : Len(BadgesOfEntity(2, id)) > badges_per_page(cfg)

---------------------------------------------------------------------------
(* Definitions for C7 *)

NameOfBadge(o) == ParticipantsOf(o.entity_id)[o.k].name

LabelObeysLaw(name, label) ==
    /\ Len(name) > 25 =>
          /\ Len(label) = 25
          /\ \A j \in 1..22 : label[j] = name[j]
          /\ \A j \in 23..25 : label[j] = "."
    /\ Len(name) <= 25 => label = name

LabelsObeyLaw(ops) ==
    \A i \in 1..Len(ops) :
        IsBadge(ops[i]) => LabelObeysLaw(NameOfBadge(ops[i]), ops[i].label)

(* C7: the label drawn for a name of more than 25 characters is its first
   22 characters followed by '...', 25 characters in all; the label drawn
   for a name of at most 25 characters, the empty one included, is the
   name. *)
C7_TruncationLaw == \A s \in 1..2 : LabelsObeyLaw(Ops(s))

\* badges were drawn for a name of more than 25 characters, for one of
\* exactly 25 and for the empty name
C7_Witness ==
    \E s \in 1..2 :
        /\ \E i \in 1..Len(Ops(s)) :
              IsBadge(Ops(s)[i]) /\ Len(NameOfBadge(Ops(s)[i])) > 25
        /\ \E t \in 1..2 : \E i \in 1..Len(Ops(t)) :
              IsBadge(Ops(t)[i]) /\ Len(NameOfBadge(Ops(t)[i])) = 25
        /\ \E i \in 1..Len(Ops(s)) :
              IsBadge(Ops(s)[i]) /\ NameOfBadge(Ops(s)[i]) = <<>>

---------------------------------------------------------------------------
(* Definitions for C8 *)

OrderedCalls(ops) ==
    \A i \in 1..Len(ops) :
        /\ IsFooter(ops[i]) => (i = 1 \/ IsShowPage(ops[i - 1]))
        /\ IsBadge(ops[i]) => i > 1 /\ ~IsShowPage(ops[i - 1])
        /\ IsSave(ops[i]) => i = Len(ops) /\ i > 1 /\ IsShowPage(ops[i - 1])

FinalizedCanvas(s, ops) ==
    /\ OrderedCalls(ops)
    /\ canvas[s].saved <=> (ops # <<>> /\ IsSave(ops[Len(ops)]))
    /\ pc = "save" /\ stream = s => ops # <<>> /\ IsShowPage(ops[Len(ops)])
    /\ Returned(s) /\ canvas[s].created => canvas[s].saved
    /\ ops # <<>> => canvas[s].created

(* C8: on every canvas a footer is the first drawing of its page (the page
   before it was closed), save comes at most once, as the last call and
   right after a showPage, so nothing is drawn on a page that is never
   closed and nothing is drawn after the last showPage; a call that
   created a canvas has saved it when it returns. *)
C8_Finalization == \A s \in 1..2 : FinalizedCanvas(s, Ops(s))

\* the run is over with both files saved, the last page of each closed
\* before it was full
C8_Witness ==
    /\ pc = "done"
    /\ canvas[1].saved
    /\ canvas[2].saved
    /\ \A s \in 1..2 :
          NumBadges(ClosedPages(s)[Len(ClosedPages(s))]) < badges_per_page(cfg)

=============================================================================
